---- MODULE Spec2Model ----
\* Model of the local index and its searches (src/chroma.py, VectorDBManager),
\* of the account store with its sessions and its token-rotation archival
\* (src/auth.py, AuthManager), of the repository traversal (src/githubs.py,
\* GitHubManager._get_all_contents) and of the command loop (src/cli.py,
\* run_application and its handlers).
\*
\* The program is single-threaded: `pc` is the position of the one running call,
\* `call` holds its arguments and locals, `result` how the last call ended.
\* A method that raises ends with result = "raised" and leaves everything it
\* had not yet written as it was. A call of an external collaborator (the
\* embedding model, the chroma collection, a file write or copy) either
\* succeeds or raises; a raised collection call has written nothing.
EXTENDS Integers, Sequences, FiniteSets, TLC

VARIABLES
    collection,     \* chroma collection "github_repos": set of stored documents
    repo_stats,     \* VectorDBManager.repo_stats (in memory)
    stats_file,     \* content of repo_stats.json
    users,          \* content of users.json: username -> account
    sessions,       \* content of sessions.json: set of usernames (keys of the dict)
    current_user,   \* AuthManager.current_user
    archives_root,  \* whether <data_dir>/archives exists
    archives,       \* directories under <data_dir>/archives
    chroma_file,    \* <data_dir>/chroma.sqlite3
    selected_file,  \* <data_dir>/selected_repo.json
    clock,          \* wall clock, in seconds
    pc,             \* position of the running call
    call,           \* arguments and locals of the running (or last) call
    result,         \* how the last call ended
    github_manager, \* cli.github_manager: the cached GitHubManager, if any
    proc,           \* the process: running, exited, or ended by a traceback
    cli_pc          \* position of run_application in its command loop

indexVars == <<collection, repo_stats, stats_file>>
authVars == <<users, sessions, current_user, archives_root, archives,
              chroma_file, selected_file, clock>>
vars == <<collection, repo_stats, stats_file, users, sessions,
          current_user, archives_root, archives, chroma_file, selected_file,
          clock, pc, call, result, github_manager, proc, cli_pc>>
cliVars == <<github_manager, proc, cli_pc>>

None == "None"
Absent == "absent"

\* ------------------------------------------------------------------ bounds

MaxClock == 1

\* ------------------------------------------------------------- input sets

\* Repository names and paths; "_" may occur in both.
Repos == {"a", "a_b"}
Paths == {"c", "b_c"}

\* A content is a sequence of code points: 120 is "x" (one byte in UTF-8),
\* 233 is e-acute (two bytes).
Contents == {<<120>>, <<233>>}

Usernames == {"alice", "bob"}
Passwords == {"pw1", "pw2"}

\* Token values as typed at the prompt; the empty string is one of them.
Tokens == {"", "tokA", "tokB"}

\* Contents of the two files the archival copies.
ChromaVersions == {"db1"}
SelectedVersions == {"sel1"}

\* A Python dict path -> content.
DocumentMaps == UNION {[P -> Contents] : P \in SUBSET Paths}

\* ------------------------------------------------------- src/chroma.py

\* str.encode(): the UTF-8 length of one code point.
Utf8Len(cp) ==
    IF cp < 128 THEN 1 ELSE IF cp < 2048 THEN 2 ELSE IF cp < 65536 THEN 3 ELSE 4

\* len(content.encode())
RECURSIVE EncodedLen(_)
EncodedLen(content) ==
    IF content = <<>> THEN 0
    ELSE Utf8Len(Head(content)) + EncodedLen(Tail(content))

\* hashlib.md5(s.encode()).hexdigest(), taken as collision-free.
Md5Hex(s) == "md5:" \o s

\* _generate_doc_id
UniqueStr(repo_name, path) == repo_name \o "_" \o path

GenerateDocId(repo_name, path) == Md5Hex(UniqueStr(repo_name, path))

\* One iteration of the loop of store_repository: the batch entry of a path.
BatchEntry(repo_name, path, content) ==
    [id |-> GenerateDocId(repo_name, path), repo |-> repo_name, path |-> path,
     size |-> EncodedLen(content), content |-> content]

\* The loop of store_repository: ids, metadatas and documents_list, as one set
\* of entries (a dict has each path once).
BuildBatch(repo_name, documents) ==
    {BatchEntry(repo_name, p, documents[p]) : p \in DOMAIN documents}

\* total_size, accumulated by the loop.
RECURSIVE SumSizes(_)
SumSizes(batch) ==
    IF batch = {} THEN 0
    ELSE LET e == CHOOSE x \in batch : TRUE
         IN  e.size + SumSizes(batch \ {e})

\* Mutant: the batch is added and no stored document is replaced.
UpsertAdds(coll, batch) == coll \cup batch

\* collection.upsert: same id overwrites in place.
Upsert(coll, batch) ==
    {d \in coll : d.id \notin {e.id : e \in batch}} \cup batch

\* Mutant: the filter is dropped and every document is deleted.
DeleteEverything(coll, repo_name) == {}

\* collection.delete(where={"repo": repo_name})
DeleteWhereRepo(coll, repo_name) == {d \in coll : d.repo # repo_name}

\* The statistics entry written by store_repository (last_indexed left out).
StatsEntry(documents, total_size) ==
    [indexed_files |-> Cardinality(DOMAIN documents), size_bytes |-> total_size]

\* Mutant: the entry is added to the one of the earlier runs.
PutStatsMerges(stats, repo_name, entry) ==
    [r \in DOMAIN stats \cup {repo_name} |->
        IF r # repo_name THEN stats[r]
        ELSE IF r \in DOMAIN stats
             THEN [indexed_files |-> stats[r].indexed_files + entry.indexed_files,
                   size_bytes |-> stats[r].size_bytes + entry.size_bytes]
             ELSE entry]

\* self.repo_stats[repo_name] = {...}
PutStats(stats, repo_name, entry) ==
    [r \in DOMAIN stats \cup {repo_name} |->
        IF r = repo_name THEN entry ELSE stats[r]]

\* del self.repo_stats[repo_name]
DelStats(stats, repo_name) == [r \in DOMAIN stats \ {repo_name} |-> stats[r]]

EmptyStats == [r \in {} |-> 0]

\* sum(repo[field] for repo in self.repo_stats.values())
RECURSIVE SumField(_, _, _)
SumField(stats, rs, field) ==
    IF rs = {} THEN 0
    ELSE LET r == CHOOSE x \in rs : TRUE
         IN  stats[r][field] + SumField(stats, rs \ {r}, field)

\* get_repository_stats
GetRepositoryStats(stats) ==
    [total_repos |-> Cardinality(DOMAIN stats),
     total_files |-> SumField(stats, DOMAIN stats, "indexed_files"),
     total_size_bytes |-> SumField(stats, DOMAIN stats, "size_bytes"),
     repos |-> stats]

\* json.dump(self.repo_stats, f) into a file opened with 'w': the file holds the
\* mapping; when the dump fails the file, truncated by the open, does not parse.
StatsFile(stats) == [parses |-> TRUE, data |-> stats]

Truncated == [parses |-> FALSE, data |-> EmptyStats]

NoCall == [op |-> "none", repo |-> None, at |-> "none", changed |-> FALSE]

\* What stays of a call once it has ended: the operation, its subject, the
\* statement it ended at, and whether it had replaced or removed stored
\* documents.
Ended(c, at) ==
    [op |-> c.op, repo |-> c.repo, at |-> at, changed |-> c.changed]

\* collection.upsert, which may raise: the batch is written whole or not at all.
UpsertOutcomes == {"ok", "raised"}

\* store_repository, lines 40-59: the loop that builds the batch. An
\* embedding_model.encode() that raises ends the call before anything is written.
StoreRepository(repo_name, documents) ==
    \E embedded \in BOOLEAN :
        /\ (~embedded) => documents # << >>
        /\ LET batch == BuildBatch(repo_name, documents)
               c == [op |-> "store_repository", repo |-> repo_name,
                     at |-> "running", changed |-> FALSE,
                     documents |-> documents, batch |-> batch,
                     total_size |-> SumSizes(batch), upserted |-> FALSE]
           IN  IF embedded
               THEN call' = c /\ pc' = "upsert" /\ result' = "running"
               ELSE call' = Ended(c, "embed") /\ pc' = "idle" /\ result' = "raised"

\* Mutant: the guard is dropped.
ShouldStoreAlways(documents) == TRUE

\* handle_index_repo, line 952: `if documents:`.
ShouldStore(documents) == documents # << >>

\* handle_index_repo, lines 952-956, with `documents` as its loop collected it:
\* store_repository is called for a mapping that is not empty, and a message is
\* printed for an empty one. This is the program's one call of store_repository.
HandleIndexRepo(repo_name, documents) ==
    /\ pc = "idle"
    /\ IF ShouldStore(documents)
       THEN StoreRepository(repo_name, documents)
       ELSE /\ call' = [op |-> "handle_index_repo", repo |-> repo_name,
                        at |-> "no_documents", changed |-> FALSE]
            /\ pc' = "idle"
            /\ result' = "returned"
    /\ UNCHANGED <<indexVars, authVars>>

\* Mutant: a failed upsert is swallowed and the call goes on.
StoreUpsertSwallows ==
    /\ pc = "upsert"
    /\ \E outcome \in UpsertOutcomes :
        /\ IF outcome = "ok"
           THEN /\ collection' = Upsert(collection, call.batch)
                /\ call' = [call EXCEPT !.upserted = TRUE]
           ELSE UNCHANGED <<collection, call>>
        /\ pc' = "stats"
        /\ result' = "running"
    /\ UNCHANGED <<repo_stats, stats_file, authVars>>

\* store_repository, lines 61-66: the single upsert of the batch.
StoreUpsert ==
    /\ pc = "upsert"
    /\ \E outcome \in UpsertOutcomes :
        IF outcome = "ok"
        THEN /\ collection' = Upsert(collection, call.batch)
             /\ call' = [call EXCEPT
                            !.upserted = TRUE,
                            !.changed = \E e \in call.batch, d \in collection :
                                            /\ d.id = e.id
                                            /\ d.repo = e.repo
                                            /\ d.path = e.path
                                            /\ d.content # e.content]
             /\ pc' = "stats"
             /\ result' = "running"
        ELSE /\ pc' = "idle"
             /\ result' = "raised"
             /\ call' = Ended(call, "upsert")
             /\ UNCHANGED collection
    /\ UNCHANGED <<repo_stats, stats_file, authVars>>

\* store_repository, lines 69-73: replace the entry in memory.
StoreStats ==
    /\ pc = "stats"
    /\ repo_stats' = PutStats(repo_stats, call.repo,
                              StatsEntry(call.documents, call.total_size))
    /\ pc' = "save"
    /\ UNCHANGED <<collection, stats_file, call, result, authVars>>

\* store_repository, lines 75-76: write the statistics file.
StoreSave ==
    /\ pc = "save"
    /\ \E written \in BOOLEAN :
        IF written
        THEN stats_file' = StatsFile(repo_stats) /\ result' = "returned"
        ELSE stats_file' = Truncated /\ result' = "raised"
    /\ pc' = "idle"
    /\ call' = Ended(call, "save")
    /\ UNCHANGED <<collection, repo_stats, authVars>>

\* clear_repository, line 115: delete the repository's documents.
ClearRepository(repo_name) ==
    /\ pc = "idle"
    /\ \E deleted \in BOOLEAN :
        LET c == [op |-> "clear_repository", repo |-> repo_name,
                  at |-> "running",
                  changed |-> \E d \in collection : d.repo = repo_name]
        IN  IF deleted
            THEN /\ collection' = DeleteWhereRepo(collection, repo_name)
                 /\ call' = c
                 /\ pc' = "clear_stats"
                 /\ result' = "running"
            ELSE /\ call' = Ended([c EXCEPT !.changed = FALSE], "delete")
                 /\ pc' = "idle"
                 /\ result' = "raised"
                 /\ UNCHANGED collection
    /\ UNCHANGED <<repo_stats, stats_file, authVars>>

\* clear_repository, lines 116-119: drop the entry and write the file.
ClearStats ==
    /\ pc = "clear_stats"
    /\ IF call.repo \in DOMAIN repo_stats
       THEN /\ repo_stats' = DelStats(repo_stats, call.repo)
            /\ \E written \in BOOLEAN :
                IF written
                THEN stats_file' = StatsFile(repo_stats') /\ result' = "returned"
                ELSE stats_file' = Truncated /\ result' = "raised"
       ELSE /\ result' = "returned"
            /\ UNCHANGED <<repo_stats, stats_file>>
    /\ pc' = "idle"
    /\ call' = Ended(call, "clear_stats")
    /\ UNCHANGED <<collection, authVars>>

\* ------------------------------------------------------- src/auth.py

\* _hash_password
HashPassword(password) == "sha256:" \o password

\* Python truth of an optional string: None and "" are false.
Truthy(x) == x # None /\ x # ""

\* What stays of an AuthManager call once it has ended.
EndedAuth(op, username, token, at) ==
    [op |-> op, username |-> username, token |-> token, at |-> at]

\* What stays of a register or login call: the summary, with the password given.
EndedCredentials(op, username, password, at) ==
    [op |-> op, username |-> username, token |-> None, at |-> at,
     password |-> password]

\* A register that overwrites the account of a registered user.
RegisterOverwrites(username, password) ==
    /\ pc = "idle"
    /\ users' = [u \in DOMAIN users \cup {username} |->
                    IF u = username
                    THEN [password_hash |-> HashPassword(password),
                          github_token |-> None]
                    ELSE users[u]]
    /\ call' = EndedCredentials("register", username, password, "registered")
    /\ result' = "returned"
    /\ UNCHANGED <<pc, sessions, current_user, archives_root, archives,
                   chroma_file, selected_file, clock, indexVars>>

\* register
Register(username, password) ==
    /\ pc = "idle"
    /\ IF username \in DOMAIN users
       THEN /\ UNCHANGED users
            /\ call' = EndedCredentials("register", username, password, "exists")
       ELSE /\ users' = [u \in DOMAIN users \cup {username} |->
                            IF u = username
                            THEN [password_hash |-> HashPassword(password),
                                  github_token |-> None]
                            ELSE users[u]]
            /\ call' = EndedCredentials("register", username, password, "registered")
    /\ result' = "returned"
    /\ UNCHANGED <<pc, sessions, current_user, archives_root, archives,
                   chroma_file, selected_file, clock, indexVars>>

\* get_current_user: the first key of the session file, None when it has none.
GetCurrentUser(sess) == IF sess = {} THEN None ELSE CHOOSE u \in sess : TRUE

\* A login that adds its session to the file instead of writing the file anew.
LoginAddsSession(username, password) ==
    /\ pc = "idle"
    /\ IF /\ username \in DOMAIN users
          /\ users[username].password_hash = HashPassword(password)
       THEN /\ current_user' = username
            /\ sessions' = sessions \cup {username}
            /\ call' = EndedCredentials("login", username, password,
                                 IF sessions = {} THEN "logged_in"
                                 ELSE "session_replaced")
       ELSE /\ UNCHANGED <<current_user, sessions>>
            /\ call' = EndedCredentials("login", username, password, "refused")
    /\ result' = "returned"
    /\ UNCHANGED <<pc, users, archives_root, archives, chroma_file,
                   selected_file, clock, indexVars>>

\* A login that does not compare the password.
LoginAnyPassword(username, password) ==
    /\ pc = "idle"
    /\ IF username \in DOMAIN users
       THEN /\ current_user' = username
            /\ sessions' = {username}
            /\ call' = EndedCredentials("login", username, password,
                                        IF sessions = {} THEN "logged_in"
                                        ELSE "session_replaced")
       ELSE /\ UNCHANGED <<current_user, sessions>>
            /\ call' = EndedCredentials("login", username, password, "refused")
    /\ result' = "returned"
    /\ UNCHANGED <<pc, users, archives_root, archives, chroma_file,
                   selected_file, clock, indexVars>>

\* login, with _create_session; the summary of the call tells a login that
\* found a session in the file from one that found none.
Login(username, password) ==
    /\ pc = "idle"
    /\ IF /\ username \in DOMAIN users
          /\ users[username].password_hash = HashPassword(password)
       THEN /\ current_user' = username
            /\ sessions' = {username}
            /\ call' = EndedCredentials("login", username, password,
                                 IF sessions = {} THEN "logged_in"
                                 ELSE "session_replaced")
       ELSE /\ UNCHANGED <<current_user, sessions>>
            /\ call' = EndedCredentials("login", username, password, "refused")
    /\ result' = "returned"
    /\ UNCHANGED <<pc, users, archives_root, archives, chroma_file,
                   selected_file, clock, indexVars>>

\* A logout that forgets the user in memory and leaves the session file.
LogoutKeepsSession ==
    /\ pc = "idle"
    /\ current_user' = None
    /\ UNCHANGED sessions
    /\ call' = EndedAuth("logout", None, None, "logged_out")
    /\ result' = "returned"
    /\ UNCHANGED <<pc, users, archives_root, archives, chroma_file,
                   selected_file, clock, indexVars>>

\* logout, with _clear_session
Logout ==
    /\ pc = "idle"
    /\ current_user' = None
    /\ sessions' = {}
    /\ call' = EndedAuth("logout", None, None, "logged_out")
    /\ result' = "returned"
    /\ UNCHANGED <<pc, users, archives_root, archives, chroma_file,
                   selected_file, clock, indexVars>>

\* A new process: AuthManager() starts with no user in memory, and the files
\* of the data directory are what the last process left.
Restart ==
    /\ pc = "idle"
    /\ current_user' = None
    /\ call' = EndedAuth("restart", None, None, "started")
    /\ result' = "returned"
    /\ UNCHANGED <<pc, users, sessions, archives_root, archives, chroma_file,
                   selected_file, clock, indexVars>>

\* get_github_token
GetGithubToken(us, username) ==
    IF username \in DOMAIN us THEN us[username].github_token ELSE None

\* An archival for every change of the token, the first one included.
ArchiveNeededAnyChange(old_token, token) == old_token # token

\* set_github_token, line 59: whether the old data is archived first.
ArchiveNeeded(old_token, token) == Truthy(old_token) /\ old_token # token

\* A set_github_token that saves the new token before it archives.
SetGithubTokenWritesFirst(username, token) ==
    /\ pc = "idle"
    /\ IF username \in DOMAIN users
       THEN LET old_token == users[username].github_token
            IN  /\ call' = [op |-> "set_github_token", username |-> username,
                            token |-> token, old_token |-> old_token,
                            at |-> "running"]
                /\ users' = [users EXCEPT ![username].github_token = token]
                /\ pc' = IF ArchiveNeeded(old_token, token)
                         THEN "archive" ELSE "save_token"
                /\ result' = "running"
       ELSE /\ call' = EndedAuth("set_github_token", username, token, "unknown_user")
            /\ UNCHANGED users
            /\ pc' = "idle"
            /\ result' = "returned"
    /\ UNCHANGED <<sessions, current_user, archives_root, archives,
                   chroma_file, selected_file, clock, indexVars>>

\* set_github_token, lines 56-61: load the accounts and decide on the archival.
SetGithubToken(username, token) ==
    /\ pc = "idle"
    /\ IF username \in DOMAIN users
       THEN LET old_token == users[username].github_token
            IN  /\ call' = [op |-> "set_github_token", username |-> username,
                            token |-> token, old_token |-> old_token,
                            at |-> "running"]
                /\ pc' = IF ArchiveNeeded(old_token, token)
                         THEN "archive" ELSE "save_token"
                /\ result' = "running"
       ELSE /\ call' = EndedAuth("set_github_token", username, token, "unknown_user")
            /\ pc' = "idle"
            /\ result' = "returned"
    /\ UNCHANGED <<authVars, indexVars>>

\* Line 4 binds `time` to the class datetime.time, which has no attribute
\* `time`: the call time.time() of line 76 raises AttributeError.
TimeTimeRaises == TRUE

\* hashlib.md5(old_token.encode()).hexdigest()[:8]
TokenHash(old_token) == "md5_8:" \o old_token

\* shutil.copy2 of the two files, each only if it exists; a copy may raise.
CopyOutcomes == {"copied", "chroma_raised", "selected_raised"}

\* The archive directory after lines 83-93.
ArchiveDir(name, outcome) ==
    LET old == IF \E a \in archives : a.name = name
               THEN CHOOSE a \in archives : a.name = name
               ELSE [name |-> name, chroma |-> Absent, selected |-> Absent]
    IN  [name |-> name,
         chroma |-> IF chroma_file # Absent /\ outcome # "chroma_raised"
                    THEN chroma_file ELSE old.chroma,
         selected |-> IF selected_file # Absent /\ outcome = "copied"
                      THEN selected_file ELSE old.selected]

\* _archive_old_data
ArchiveOldData ==
    /\ pc = "archive"
    /\ archives_root' = TRUE
    /\ IF TimeTimeRaises
       THEN /\ UNCHANGED archives
            /\ call' = EndedAuth(call.op, call.username, call.token, "archive")
            /\ pc' = "idle"
            /\ result' = "raised"
       ELSE \E outcome \in CopyOutcomes :
            LET name == <<call.username, TokenHash(call.old_token), clock>>
                dir == ArchiveDir(name, outcome)
            IN  /\ (outcome = "chroma_raised") => chroma_file # Absent
                /\ (outcome = "selected_raised") => selected_file # Absent
                /\ archives' = {a \in archives : a.name # name} \cup {dir}
                /\ IF outcome = "copied"
                   THEN /\ UNCHANGED call
                        /\ pc' = "save_token"
                        /\ result' = "running"
                   ELSE /\ call' = EndedAuth(call.op, call.username, call.token,
                                             "archive")
                        /\ pc' = "idle"
                        /\ result' = "raised"
    /\ UNCHANGED <<users, sessions, current_user, chroma_file, selected_file,
                   clock, indexVars>>

\* set_github_token, lines 62-63: store the token and save the accounts.
SaveToken ==
    /\ pc = "save_token"
    /\ users' = [users EXCEPT ![call.username].github_token = call.token]
    /\ call' = EndedAuth(call.op, call.username, call.token, "saved")
    /\ pc' = "idle"
    /\ result' = "returned"
    /\ UNCHANGED <<sessions, current_user, archives_root, archives, chroma_file,
                   selected_file, clock, indexVars>>

\* The chroma client writing its backing file (src/chroma.py, lines 20 and 61).
ChromaWrite(v) ==
    /\ pc = "idle"
    /\ chroma_file # v
    /\ chroma_file' = v
    /\ UNCHANGED <<users, sessions, current_user, archives_root, archives,
                   selected_file, clock, indexVars, pc, call, result>>

\* GitHubManager._save_selected_repo writing selected_repo.json.
SaveSelectedRepo(v) ==
    /\ pc = "idle"
    /\ selected_file # v
    /\ selected_file' = v
    /\ UNCHANGED <<users, sessions, current_user, archives_root, archives,
                   chroma_file, clock, indexVars, pc, call, result>>

\* A second passes.
Tick ==
    /\ clock < MaxClock
    /\ clock' = clock + 1
    /\ UNCHANGED <<users, sessions, current_user, archives_root, archives,
                   chroma_file, selected_file, indexVars, pc, call, result>>

\* ------------------------------------------------------------ the searches

\* What is typed at the prompts of the two search commands. A text is the
\* sequence of its characters.
Queries == {"", "q"}
RepoFilters == {"", "a"}
LimitStrings == {<< >>, <<"0">>, <<"2">>, <<"-", "1">>, <<"a">>, <<"²">>}

\* The distances the store may report.
Distances == {0, 1}

\* The documents each repository is indexed with before a search.
SearchDocumentMaps == [Paths -> {<<120>>}]

DigitChars == <<"0", "1", "2", "3", "4", "5", "6", "7", "8", "9">>

\* str.isdigit(): not empty, and every character a digit; the superscript two
\* is a digit for isdigit.
IsDigit(text) ==
    /\ Len(text) > 0
    /\ \A i \in 1..Len(text) :
        \/ \E k \in 1..10 : DigitChars[k] = text[i]
        \/ text[i] = "²"

\* Whether int(text) answers for a text of digits: it raises ValueError for
\* the superscript two.
IntParses(text) ==
    \A i \in 1..Len(text) : \E k \in 1..10 : DigitChars[k] = text[i]

\* int(text) of a text of decimal digits.
RECURSIVE IntOf(_)
IntOf(text) ==
    IF Len(text) = 0 THEN 0
    ELSE 10 * IntOf(SubSeq(text, 1, Len(text) - 1))
         + (CHOOSE k \in 1..10 : DigitChars[k] = text[Len(text)]) - 1

\* handle_semantic_search, line 1004.
ParseLimit(limit_str) == IF IsDigit(limit_str) THEN IntOf(limit_str) ELSE 5

\* The answer of collection.query for one query embedding: parallel lists.
EmptyAnswer == [ids |-> << >>, metadatas |-> << >>, documents |-> << >>,
                distances |-> << >>]

\* The documents a query is answered from: all, or those of the `where` clause.
Matching(coll, repo_name) ==
    IF repo_name # None THEN {d \in coll : d.repo = repo_name} ELSE coll

\* collection.query: the n_results nearest of the matching documents (all of
\* them when there are fewer), nearest first. Which are nearest is up to the
\* embeddings: any ranking with non-decreasing distances.
QueryAnswers(coll, repo_name, n_results) ==
    LET docs == Matching(coll, repo_name)
        k == IF n_results < Cardinality(docs) THEN n_results
             ELSE Cardinality(docs)
    IN  {[ids |-> [i \in 1..k |-> rank[i].id],
          metadatas |-> [i \in 1..k |-> [repo |-> rank[i].repo,
                                         path |-> rank[i].path]],
          documents |-> [i \in 1..k |-> rank[i].content],
          distances |-> dist] :
            rank \in {r \in [1..k -> docs] :
                        \A i, j \in 1..k : i # j => r[i] # r[j]},
            dist \in {d \in [1..k -> Distances] :
                        \A i, j \in 1..k : i <= j => d[i] <= d[j]}}

\* A _format_results that lists the entries last to first.
FormatResultsReversed(results) ==
    [i \in 1..Len(results.ids) |->
        LET j == Len(results.ids) + 1 - i
        IN  [id |-> results.ids[j],
             repo |-> results.metadatas[j].repo,
             path |-> results.metadatas[j].path,
             content |-> results.documents[j],
             distance |-> results.distances[j]]]

\* _format_results
FormatResults(results) ==
    [i \in 1..Len(results.ids) |->
        [id |-> results.ids[i],
         repo |-> results.metadatas[i].repo,
         path |-> results.metadatas[i].path,
         content |-> results.documents[i],
         distance |-> results.distances[i]]]

\* The locals of a search command.
SearchCall(op, query, repo_name, limit_str, n_results, at) ==
    [op |-> op, query |-> query, repo_name |-> repo_name,
     limit_str |-> limit_str, n_results |-> n_results, at |-> at,
     embedded |-> FALSE, delegated |-> FALSE,
     answer |-> EmptyAnswer, results |-> << >>]

\* handle_search, lines 965-971: the prompts; the limit is search_repository's
\* default.
HandleSearch(query, repo_name_filter) ==
    /\ pc = "idle"
    /\ call' = SearchCall("handle_search", query,
                          IF repo_name_filter # "" THEN repo_name_filter
                          ELSE None,
                          << >>, 5, "running")
    /\ pc' = "search_embed"
    /\ result' = "running"
    /\ UNCHANGED <<indexVars, authVars, cliVars>>

\* handle_semantic_search, lines 999-1007: the prompts and the limit. int()
\* stands outside the handler's try: what it raises leaves the handler.
HandleSemanticSearch(query, repo_name_filter, limit_str) ==
    /\ pc = "idle"
    /\ LET repo_name == IF repo_name_filter # "" THEN repo_name_filter
                        ELSE None
       IN  IF IsDigit(limit_str) /\ ~IntParses(limit_str)
           THEN /\ call' = SearchCall("handle_semantic_search", query,
                                      repo_name, limit_str, 5, "int_raised")
                /\ pc' = "idle"
                /\ result' = "raised"
           ELSE /\ call' = SearchCall("handle_semantic_search", query,
                                      repo_name, limit_str,
                                      ParseLimit(limit_str), "running")
                /\ pc' = "search_embed"
                /\ result' = "running"
    /\ UNCHANGED <<indexVars, authVars, cliVars>>

\* search_repository, line 80: the query is embedded. What the model raises is
\* reported by the handler.
SearchEmbed ==
    /\ pc = "search_embed"
    /\ \E outcome \in {"ok", "raised"} :
        IF outcome = "ok"
        THEN /\ call' = [call EXCEPT !.embedded = TRUE]
             /\ pc' = "search_query"
             /\ result' = "running"
        ELSE /\ call' = [call EXCEPT !.at = "error"]
             /\ pc' = "idle"
             /\ result' = "returned"
    /\ UNCHANGED <<indexVars, authVars, cliVars>>

\* search_repository, lines 82-94: the query is sent to the collection and the
\* answer is formatted. The collection raises or answers; for an n_results
\* below one it raises or answers nothing.
SearchQuery ==
    /\ pc = "search_query"
    /\ \/ /\ call' = [call EXCEPT !.delegated = TRUE, !.at = "error"]
       \/ \E answer \in QueryAnswers(collection, call.repo_name,
                                     IF call.n_results < 0 THEN 0
                                     ELSE call.n_results) :
            call' = [call EXCEPT !.delegated = TRUE, !.at = "returned",
                                 !.answer = answer,
                                 !.results = FormatResults(answer)]
    /\ pc' = "idle"
    /\ result' = "returned"
    /\ UNCHANGED <<indexVars, authVars, cliVars>>

\* ------------------------------------------- the traversal (src/githubs.py)

\* A repository: each directory's listing, in the order get_contents gives it.
\* The root holds a file, a directory, a file, a directory and a file; the
\* first directory holds a file, a directory and a symlink.
Entry(path, type) == [path |-> path, type |-> type]
RepoTree ==
    [p \in {"", "d", "d/e", "g"} |->
        CASE p = "" -> <<Entry("a", "file"), Entry("d", "dir"),
                         Entry("m", "file"), Entry("g", "dir"),
                         Entry("z", "file")>>
          [] p = "d" -> <<Entry("d/x", "file"), Entry("d/e", "dir"),
                          Entry("d/l", "symlink")>>
          [] p = "d/e" -> <<Entry("d/e/y", "file")>>
          [] p = "g" -> <<Entry("g/w", "file")>>]
Dirs == DOMAIN RepoTree

\* The files a repository may lack, and the repository without some of them.
OptionalFiles == {"z", "d/e/y"}
IsPresent(absent, e) == e.path \notin absent
TreeWithout(absent) ==
    [p \in Dirs |-> SelectSeq(RepoTree[p], LAMBDA e : IsPresent(absent, e))]

\* What repo.get_contents(path) does for a directory: it answers ("ok"), raises
\* GithubException ("github"), or raises something else ("other").
ListingOutcomes == {"ok", "github", "other"}

RECURSIVE GetAllContentsAborts(_, _, _)
RECURSIVE AbortingLoop(_, _, _, _, _)

\* A loop whose recursive call passes the GithubException on.
AbortingLoop(tree, fails, items, i, contents) ==
    IF i > Len(items) THEN [raised |-> "no", contents |-> contents]
    ELSE IF items[i].type = "dir"
    THEN LET sub == GetAllContentsAborts(tree, fails, items[i].path)
         IN  IF sub.raised # "no" THEN sub
             ELSE AbortingLoop(tree, fails, items, i + 1,
                               contents \o sub.contents)
    ELSE AbortingLoop(tree, fails, items, i + 1, contents \o <<items[i]>>)

\* A traversal with its try around the root only: a failed listing anywhere
\* empties the whole result.
GetAllContentsAborts(tree, fails, path) ==
    LET walk == IF fails[path] # "ok"
                THEN [raised |-> fails[path], contents |-> << >>]
                ELSE AbortingLoop(tree, fails, tree[path], 1, << >>)
    IN  IF path = "" /\ walk.raised = "github"
        THEN [raised |-> "no", contents |-> << >>]
        ELSE walk

RECURSIVE GetAllContents(_, _, _)
RECURSIVE ContentsLoop(_, _, _, _, _)

\* _get_all_contents, lines 170-174: the loop over the items, from item i on,
\* with `contents` as collected so far. What a recursive call raises passes
\* through the loop.
ContentsLoop(tree, fails, items, i, contents) ==
    IF i > Len(items) THEN [raised |-> "no", contents |-> contents]
    ELSE IF items[i].type = "dir"
    THEN LET sub == GetAllContents(tree, fails, items[i].path)
         IN  IF sub.raised # "no" THEN sub
             ELSE ContentsLoop(tree, fails, items, i + 1,
                               contents \o sub.contents)
    ELSE ContentsLoop(tree, fails, items, i + 1, contents \o <<items[i]>>)

\* _get_all_contents: a GithubException is caught and the answer is the empty
\* list; any other exception leaves the method.
GetAllContents(tree, fails, path) ==
    IF fails[path] = "github" THEN [raised |-> "no", contents |-> << >>]
    ELSE IF fails[path] = "other" THEN [raised |-> "other", contents |-> << >>]
    ELSE ContentsLoop(tree, fails, tree[path], 1, << >>)

\* A call of _get_all_contents on the root of a repository.
Traverse(absent, fails) ==
    /\ pc = "idle"
    /\ LET walk == GetAllContents(TreeWithout(absent), fails, "")
       IN  /\ call' = [op |-> "_get_all_contents", absent |-> absent,
                       fails |-> fails, raised |-> walk.raised # "no",
                       contents |-> walk.contents]
           /\ result' = IF walk.raised # "no" THEN "raised" ELSE "returned"
    /\ UNCHANGED <<pc, indexVars, authVars, cliVars>>

\* ----------------------------------------- the index run (handle_index_repo)

\* What _get_all_contents hands to the loop of handle_index_repo: entries with
\* a path, a type, the size the provider reports, the content, and whether
\* reading decoded_content answers or raises. Sizes stand at both sides of the
\* two limits.
EntryTypes == {"file", "symlink"}
EntrySizes == {1, 1024 * 1024 * 5, 1024 * 1024 * 10 - 1, 1024 * 1024 * 10}
ContentFiles ==
    [path : Paths, type : EntryTypes, size : EntrySizes, content : {<<120>>},
     reads : BOOLEAN]

\* The listings: no entry, one, or two with different paths, in either order.
ContentLists ==
    {<< >>} \cup {<<e>> : e \in ContentFiles}
    \cup {s \in ContentFiles \X ContentFiles : s[1].path # s[2].path}

\* handle_index_repo, line 942: the size limit written in the condition.
IndexSizeLimit == 1024 * 1024 * 10

\* Config.defaults["max_file_size"] (src/config.py, line 30).
MaxFileSize == 1024 * 1024 * 5

\* handle_index_repo, line 942: the entry is a file and under the limit.
Eligible(content) == content.type = "file" /\ content.size < IndexSizeLimit

\* A dict with one more key: documents[path] = file_content.
Assign(documents, path, file_content) ==
    [p \in DOMAIN documents \cup {path} |->
        IF p = path THEN file_content ELSE documents[p]]

\* A loop that ends at the first entry it cannot read.
RECURSIVE CollectDocumentsBreaks(_, _, _)
CollectDocumentsBreaks(contents, i, documents) ==
    IF i > Len(contents) THEN documents
    ELSE IF Eligible(contents[i]) /\ ~contents[i].reads THEN documents
    ELSE IF Eligible(contents[i])
    THEN CollectDocumentsBreaks(contents, i + 1,
            Assign(documents, contents[i].path, contents[i].content))
    ELSE CollectDocumentsBreaks(contents, i + 1, documents)

\* handle_index_repo, lines 938-950: the loop over the entries, from entry i
\* on, with `documents` as collected so far. An eligible entry is read and
\* stored under its path; what the reading raises is caught and the loop goes
\* on; an entry that is not eligible is skipped with a message.
RECURSIVE CollectDocuments(_, _, _)
CollectDocuments(contents, i, documents) ==
    IF i > Len(contents) THEN documents
    ELSE IF Eligible(contents[i]) /\ contents[i].reads
    THEN CollectDocuments(contents, i + 1,
            Assign(documents, contents[i].path, contents[i].content))
    ELSE CollectDocuments(contents, i + 1, documents)

\* handle_index_repo, lines 926-950: the entries are listed and the loop runs.
\* An empty listing ends the command with a message (lines 932-935).
IndexLoop(repo_name, contents) ==
    /\ pc = "idle"
    /\ IF contents = << >>
       THEN /\ call' = [op |-> "handle_index_repo", repo |-> repo_name,
                        at |-> "no_contents", changed |-> FALSE]
            /\ pc' = "idle"
            /\ result' = "returned"
       ELSE /\ call' = [op |-> "handle_index_repo", repo |-> repo_name,
                        at |-> "collected", changed |-> FALSE,
                        contents |-> contents,
                        documents |-> CollectDocuments(contents, 1, << >>)]
            /\ pc' = "collected"
            /\ result' = "running"
    /\ UNCHANGED <<indexVars, authVars, cliVars>>

\* handle_index_repo, lines 952-956, after the loop: store_repository is called
\* with the mapping, or a message is printed for an empty one.
IndexStore ==
    /\ pc = "collected"
    /\ IF ShouldStore(call.documents)
       THEN StoreRepository(call.repo, call.documents)
       ELSE /\ call' = [op |-> "handle_index_repo", repo |-> call.repo,
                        at |-> "no_documents", changed |-> FALSE]
            /\ pc' = "idle"
            /\ result' = "returned"
    /\ UNCHANGED <<indexVars, authVars, cliVars>>

\* ------------------------------- the statistics file as _load_stats finds it

\* A JSON value read from the statistics file: an object (with the value of
\* each of its keys), an array, a number or null. The value of a key is an
\* entry of statistics, or something else (a number).
JsonEntries ==
    {[kind |-> "entry", indexed_files |-> n, size_bytes |-> s] :
        n \in 0..2, s \in 0..2}
    \cup {[kind |-> "number", indexed_files |-> 0, size_bytes |-> 0]}
JsonObjects ==
    {[kind |-> "object", entries |-> e] :
        e \in UNION {[R -> JsonEntries] : R \in SUBSET Repos}}
JsonOthers ==
    {[kind |-> k, entries |-> EmptyStats] : k \in {"array", "number", "null"}}
EmptyObject == [kind |-> "object", entries |-> EmptyStats]

\* The statistics file at startup: absent, bytes that are not UTF-8, a text
\* that is not JSON, or a JSON value.
StatsFileContents ==
    {[kind |-> k, value |-> EmptyObject] : k \in {"absent", "not_utf8", "not_json"}}
    \cup {[kind |-> "json", value |-> v] : v \in JsonObjects \cup JsonOthers}

\* _load_stats: an absent file and a JSONDecodeError give the empty mapping; any
\* other exception (UnicodeDecodeError from the read) leaves the constructor;
\* every JSON value becomes repo_stats as it is.
LoadedStats(file) ==
    IF file.kind \in {"absent", "not_json"}
    THEN [raised |-> FALSE, value |-> EmptyObject]
    ELSE IF file.kind = "not_utf8"
    THEN [raised |-> TRUE, value |-> EmptyObject]
    ELSE [raised |-> FALSE, value |-> file.value]

\* get_repository_stats on what was loaded: len() and .values() need a
\* mapping, and the sums need "indexed_files" and "size_bytes" in every value.
StatsReadRaises(value) ==
    \/ value.kind # "object"
    \/ \E r \in DOMAIN value.entries : value.entries[r].kind # "entry"

\* A process starts over a statistics file: VectorDBManager.__init__ with
\* _load_stats.
LoadStatsFile(file) ==
    /\ pc = "idle"
    /\ LET loaded == LoadedStats(file)
       IN  /\ call' = [op |-> "_load_stats", file |-> file,
                       raised |-> loaded.raised, value |-> loaded.value,
                       at |-> IF loaded.raised THEN "raised" ELSE "loaded"]
           /\ result' = IF loaded.raised THEN "raised" ELSE "returned"
    /\ UNCHANGED <<pc, indexVars, authVars, cliVars>>

\* A later read of the statistics: get_repository_stats on the loaded value.
ReadLoadedStats ==
    /\ pc = "idle"
    /\ call.op = "_load_stats"
    /\ call.at = "loaded"
    /\ IF StatsReadRaises(call.value)
       THEN /\ call' = [call EXCEPT !.at = "read_raised"]
            /\ result' = "raised"
       ELSE /\ call' = [call EXCEPT !.at = "read"]
            /\ result' = "returned"
    /\ UNCHANGED <<pc, indexVars, authVars, cliVars>>

\* ---------------------------------------------------------------------
\* src/githubs.py and src/cli.py: branches and issues of the selected
\* repository. The remote repository a call finds is an input of the call;
\* the call keeps what it found, what it left and what it reported.

BranchNames == {"main", "dev", "fix"}

\* The remote repository: its branches and its default branch, one of them.
RemoteRepos ==
    {r \in [branches : SUBSET BranchNames, default_branch : BranchNames] :
        r.default_branch \in r.branches}

\* What the user types at a prompt, and str.strip of it.
Typed(names) == [text : names, padded : BOOLEAN]

Strip(typed) == typed.text

\* ref.delete(), which may raise.
DeleteOutcomes == {"ok", "raised"}

\* A delete_branch that does not compare with the default branch.
DeleteBranchNoDefaultTest(selected, remote, branch_name) ==
    IF ~selected
    THEN {[at |-> "no_repository", raised |-> TRUE,
           branches |-> remote.branches, provider_deletes |-> 0]}
    ELSE IF branch_name \notin remote.branches
    THEN {[at |-> "get_git_ref", raised |-> TRUE,
           branches |-> remote.branches, provider_deletes |-> 0]}
    ELSE {[at |-> IF o = "ok" THEN "deleted" ELSE "delete",
           raised |-> o # "ok",
           branches |-> IF o = "ok" THEN remote.branches \ {branch_name}
                        ELSE remote.branches,
           provider_deletes |-> 1] : o \in DeleteOutcomes}

\* GitHubManager.delete_branch: the outcomes of a call, each with the
\* statement it ended at, the branches it left and the number of delete
\* calls it made to the provider.
DeleteBranch(selected, remote, branch_name) ==
    IF ~selected
    THEN {[at |-> "no_repository", raised |-> TRUE,
           branches |-> remote.branches, provider_deletes |-> 0]}
    ELSE IF branch_name = remote.default_branch
    THEN {[at |-> "default_branch", raised |-> TRUE,
           branches |-> remote.branches, provider_deletes |-> 0]}
    ELSE IF branch_name \notin remote.branches
    THEN {[at |-> "get_git_ref", raised |-> TRUE,
           branches |-> remote.branches, provider_deletes |-> 0]}
    ELSE {[at |-> IF o = "ok" THEN "deleted" ELSE "delete",
           raised |-> o # "ok",
           branches |-> IF o = "ok" THEN remote.branches \ {branch_name}
                        ELSE remote.branches,
           provider_deletes |-> 1] : o \in DeleteOutcomes}

\* A call of delete_branch on a manager with or without a selected repository.
DeleteBranchCall(selected, remote, branch_name) ==
    /\ pc = "idle"
    /\ \E o \in DeleteBranch(selected, remote, branch_name) :
        /\ call' = [op |-> "delete_branch", selected |-> selected,
                    before |-> remote, branch_name |-> branch_name,
                    details |-> FALSE, at |-> o.at, after |-> o.branches,
                    provider_deletes |-> o.provider_deletes]
        /\ result' = IF o.raised THEN "raised" ELSE "returned"
    /\ UNCHANGED <<pc, indexVars, authVars, cliVars>>

\* handle_delete_branch, with a manager at hand: the prompt, the repository
\* details (which may raise, and do without a selected repository), the two
\* refusals, the confirmation and the call; every exception is reported.
HandleDeleteBranch(selected, remote, typed, details, confirmed) ==
    /\ pc = "idle"
    /\ LET branch_name == Strip(typed)
           done(at, branches, n) ==
               /\ call' = [op |-> "handle_delete_branch",
                           selected |-> selected, before |-> remote,
                           branch_name |-> branch_name,
                           details |-> selected /\ details, at |-> at,
                           after |-> branches, provider_deletes |-> n]
               /\ result' = "returned"
       IN  IF branch_name = "0"
           THEN done("cancelled", remote.branches, 0)
           ELSE IF ~selected \/ ~details
           THEN done("error", remote.branches, 0)
           ELSE IF branch_name \notin remote.branches
           THEN done("not_found", remote.branches, 0)
           ELSE IF branch_name = remote.default_branch
           THEN done("refused", remote.branches, 0)
           ELSE IF ~confirmed
           THEN done("cancelled", remote.branches, 0)
           ELSE \E o \in DeleteBranch(selected, remote, branch_name) :
                    done(IF o.raised THEN "error" ELSE "deleted",
                         o.branches, o.provider_deletes)
    /\ UNCHANGED <<pc, indexVars, authVars, cliVars>>

\* Issues. A body is the sequence of its lines; << >> is no body.
IssueStates == {"open", "closed"}
IssueTitles == {"t1", "t2"}
IssueBodies == {<<"b1">>, <<"b2">>}

\* The issue of the remote repository, as get_issues reports it.
RemoteIssues == [number : {"7"}, state : IssueStates, title : IssueTitles,
                 body : IssueBodies]

\* The lines typed at the body prompt, up to the line that ends the loop.
BodyLines == {<<"">>, <<"b1", "", "">>, <<"b2", "", "">>,
              <<"b1", "", "b2", "", "">>}

\* handle_update_issue, lines 702-708: the loop ends at an empty line that is
\* the first line or follows an empty line; the body is the lines read but
\* the last, or None when there are none.
RECURSIVE ReadBody(_, _, _)
ReadBody(lines, i, body_lines) ==
    IF i > Len(lines)
    THEN body_lines
    ELSE IF lines[i] = "" /\ (body_lines = << >> \/ body_lines[Len(body_lines)] = "")
    THEN body_lines
    ELSE ReadBody(lines, i + 1, Append(body_lines, lines[i]))

NewBody(lines) ==
    LET body_lines == ReadBody(lines, 1, << >>)
    IN  IF body_lines = << >> THEN << >>
        ELSE SubSeq(body_lines, 1, Len(body_lines) - 1)

\* handle_update_issue, lines 695-698: a state other than open and closed is
\* reported and dropped.
NewState(typed) == IF typed \in {"", "open", "closed"} THEN typed ELSE ""

\* handle_update_issue, lines 710-717: the updates, of the fields given.
Updates(new_state, new_title, new_body) ==
    [k \in (IF new_state # "" THEN {"state"} ELSE {})
           \cup (IF new_title # "" THEN {"title"} ELSE {})
           \cup (IF new_body # << >> THEN {"body"} ELSE {}) |->
        IF k = "state" THEN <<new_state>>
        ELSE IF k = "title" THEN <<new_title>>
        ELSE new_body]

\* The issue with the updates applied: what issue.edit would leave.
Edited(issue, updates) ==
    [number |-> issue.number,
     state |-> IF "state" \in DOMAIN updates THEN updates["state"][1]
               ELSE issue.state,
     title |-> IF "title" \in DOMAIN updates THEN updates["title"][1]
               ELSE issue.title,
     body |-> IF "body" \in DOMAIN updates THEN updates["body"]
              ELSE issue.body]

\* handle_update_issue, with a manager at hand: the issue is looked up in
\* get_issues (which may raise), the updates are collected and confirmed, and
\* the success is reported; between the confirmation and the report stands
\* only the progress bar (lines 723-728), no call of the provider.
HandleUpdateIssue(issue, number, fetched, state, title, lines, answer) ==
    /\ pc = "idle"
    /\ LET updates == Updates(NewState(state), title, NewBody(lines))
           at == IF number = "0" THEN "cancelled"
                 ELSE IF ~fetched THEN "error"
                 ELSE IF number # issue.number THEN "not_found"
                 ELSE IF DOMAIN updates = {} THEN "no_updates"
                 ELSE IF answer = "n" THEN "cancelled"
                 ELSE "updated"
       IN  call' = [op |-> "handle_update_issue", before |-> issue,
                    number |-> number, updates |-> updates, at |-> at,
                    after |-> issue, provider_edits |-> 0]
    /\ result' = "returned"
    /\ UNCHANGED <<pc, indexVars, authVars, cliVars>>

\* ------------------------------------------------- the command loop (cli.py)

\* What the command loop is given to type: one account with a right and a
\* wrong password, every token, one repository, and a repository content that
\* yields no document or one.
CliUsernames == {"alice", "bob"}
CliPasswords == {"pw1", "pw2"}
CliRepos == {"a"}
CliDocumentMaps == {d \in DocumentMaps : DOMAIN d \subseteq {"c"}}

\* cli.github_manager is None.
NoManager == [built |-> FALSE, token |-> None, current_repo |-> None]

\* A GitHubManager: the token it was built with and its current_repo.
Manager(token, repo) == [built |-> TRUE, token |-> token, current_repo |-> repo]

\* GitHubManager.__init__ with _load_selected_repo. With a token and a state
\* file the repository is fetched: the fetch answers, or raises GithubException
\* (the state file is unlinked and the manager is built without a repository),
\* or raises anything else (the constructor raises).
GitHubManagerInit(token, sel) ==
    IF ~Truthy(token) \/ sel = Absent
    THEN {[raised |-> FALSE, manager |-> Manager(token, None), selected |-> sel]}
    ELSE {[raised |-> FALSE, manager |-> Manager(token, sel), selected |-> sel],
          [raised |-> FALSE, manager |-> Manager(token, None), selected |-> Absent],
          [raised |-> TRUE, manager |-> NoManager, selected |-> sel]}

\* get_github_manager_instance: the cached manager if there is one; otherwise
\* the ValueError it raises, or the manager it builds and caches.
GetGithubManagerInstance(gm, sess, us, sel) ==
    IF gm.built
    THEN {[error |-> "none", manager |-> gm, selected |-> sel]}
    ELSE LET username == GetCurrentUser(sess)
             github_token == GetGithubToken(us, username)
         IN  IF ~Truthy(username)
             THEN {[error |-> "not_logged_in", manager |-> gm, selected |-> sel]}
             ELSE IF ~Truthy(github_token)
             THEN {[error |-> "no_token", manager |-> gm, selected |-> sel]}
             ELSE {[error |-> IF o.raised THEN "init_failed" ELSE "none",
                    manager |-> IF o.raised THEN gm ELSE o.manager,
                    selected |-> o.selected] :
                        o \in GitHubManagerInit(github_token, sel)}

\* A handler that printed a message and returned.
CliMessage(op, at) == [op |-> op, repo |-> None, at |-> at, changed |-> FALSE]

\* display_main_menu: for a logged-in user the manager is asked for, and
\* whatever that raises is swallowed.
DisplayMainMenu ==
    /\ proc = "running" /\ cli_pc = "menu"
    /\ IF Truthy(GetCurrentUser(sessions))
       THEN \E o \in GetGithubManagerInstance(github_manager, sessions, users,
                                              selected_file) :
                /\ github_manager' = o.manager
                /\ selected_file' = o.selected
       ELSE UNCHANGED <<github_manager, selected_file>>
    /\ cli_pc' = "prompt"
    /\ UNCHANGED <<users, sessions, current_user, archives_root, archives,
                   chroma_file, clock, indexVars, pc, call, result, proc>>

\* Choice 2 of the logged-out menu: handle_register.
HandleRegister(username, password) ==
    /\ proc = "running" /\ cli_pc = "prompt"
    /\ ~Truthy(GetCurrentUser(sessions))
    /\ Register(username, password)
    /\ cli_pc' = "menu"
    /\ UNCHANGED <<github_manager, proc>>

\* Choice 1 of the logged-out menu: handle_login, lines 130-138.
HandleLogin(username, password) ==
    /\ proc = "running" /\ cli_pc = "prompt"
    /\ ~Truthy(GetCurrentUser(sessions))
    /\ Login(username, password)
    /\ IF call'.at # "refused"
       THEN /\ github_manager' = NoManager
            /\ cli_pc' = "login_manager"
       ELSE /\ UNCHANGED github_manager
            /\ cli_pc' = "menu"
    /\ UNCHANGED proc

\* handle_login, lines 140-146: the manager is built from the saved token; a
\* constructor that raises is reported and leaves no manager.
LoginManager ==
    /\ proc = "running" /\ cli_pc = "login_manager"
    /\ LET token == GetGithubToken(users, GetCurrentUser(sessions))
       IN  IF Truthy(token)
           THEN \E o \in GitHubManagerInit(token, selected_file) :
                    /\ github_manager' = IF o.raised THEN github_manager
                                         ELSE o.manager
                    /\ selected_file' = o.selected
           ELSE UNCHANGED <<github_manager, selected_file>>
    /\ cli_pc' = "menu"
    /\ UNCHANGED <<users, sessions, current_user, archives_root, archives,
                   chroma_file, clock, indexVars, pc, call, result, proc>>

\* Choice 23: handle_logout.
HandleLogout ==
    /\ proc = "running" /\ cli_pc = "prompt"
    /\ Truthy(GetCurrentUser(sessions))
    /\ Logout
    /\ github_manager' = NoManager
    /\ cli_pc' = "menu"
    /\ UNCHANGED proc

\* Choice 22: handle_set_github_token, lines 158-164: the call of
\* set_github_token, which stands outside the handler's try.
HandleSetGithubToken(token) ==
    /\ proc = "running" /\ cli_pc = "prompt"
    /\ Truthy(GetCurrentUser(sessions))
    /\ SetGithubToken(GetCurrentUser(sessions), token)
    /\ cli_pc' = "set_token"
    /\ UNCHANGED <<github_manager, proc>>

\* The steps of the AuthManager and VectorDBManager call a handler is in.
CliCallStep ==
    /\ proc = "running" /\ cli_pc \in {"set_token", "indexing"}
    /\ \/ ArchiveOldData
       \/ SaveToken
       \/ StoreUpsert
       \/ StoreStats
       \/ StoreSave
    /\ UNCHANGED cliVars

\* handle_set_github_token once set_github_token has ended. What it raised is
\* caught neither by the handler nor by the command loop: the process ends with
\* a traceback. After a return, lines 165-169 build the manager for the new
\* token; a constructor that raises is reported and the cached manager stays.
SetTokenReturns ==
    /\ proc = "running" /\ cli_pc = "set_token" /\ pc = "idle"
    /\ IF result = "raised"
       THEN /\ proc' = "crashed"
            /\ cli_pc' = "none"
            /\ UNCHANGED <<github_manager, selected_file>>
       ELSE /\ \E o \in GitHubManagerInit(call.token, selected_file) :
                    /\ github_manager' = IF o.raised THEN github_manager
                                         ELSE o.manager
                    /\ selected_file' = o.selected
            /\ cli_pc' = "menu"
            /\ UNCHANGED proc
    /\ UNCHANGED <<users, sessions, current_user, archives_root, archives,
                   chroma_file, clock, indexVars, pc, call, result>>

\* Choice 3: handle_select_repo. The manager is asked for, and set_current_repo
\* fetches the repository and saves its name; every exception is reported.
HandleSelectRepo(repo_name) ==
    /\ proc = "running" /\ cli_pc = "prompt" /\ pc = "idle"
    /\ Truthy(GetCurrentUser(sessions))
    /\ \E o \in GetGithubManagerInstance(github_manager, sessions, users,
                                         selected_file) :
        \E fetched \in BOOLEAN :
            IF o.error = "none" /\ Truthy(o.manager.token) /\ fetched
            THEN /\ github_manager' = [o.manager EXCEPT !.current_repo = repo_name]
                 /\ selected_file' = repo_name
                 /\ call' = CliMessage("handle_select_repo", "selected")
            ELSE /\ github_manager' = o.manager
                 /\ selected_file' = o.selected
                 /\ call' = CliMessage("handle_select_repo", "error")
    /\ result' = "returned"
    /\ cli_pc' = "menu"
    /\ UNCHANGED <<users, sessions, current_user, archives_root, archives,
                   chroma_file, clock, indexVars, pc, proc>>

\* An index command that does not test current_repo.
IndexCommandSkipsRepoTest ==
    /\ proc = "running" /\ cli_pc = "prompt" /\ pc = "idle"
    /\ IF ~Truthy(GetCurrentUser(sessions))
       THEN /\ call' = CliMessage("handle_index_repo", "invalid_choice")
            /\ cli_pc' = "menu"
            /\ UNCHANGED <<github_manager, selected_file>>
       ELSE \E o \in GetGithubManagerInstance(github_manager, sessions, users,
                                              selected_file) :
            /\ github_manager' = o.manager
            /\ selected_file' = o.selected
            /\ IF o.error # "none"
               THEN /\ call' = CliMessage("handle_index_repo", o.error)
                    /\ cli_pc' = "menu"
               ELSE /\ call' = [op |-> "handle_index_repo",
                                repo |-> o.manager.current_repo,
                                at |-> "collect", changed |-> FALSE]
                    /\ cli_pc' = "index"
    /\ result' = "returned"
    /\ UNCHANGED <<users, sessions, current_user, archives_root, archives,
                   chroma_file, clock, indexVars, pc, proc>>

\* The index command: choice 4, which only the logged-in menu offers, and
\* handle_index_repo, lines 920-924: the manager is asked for and its
\* current_repo is tested.
IndexCommand ==
    /\ proc = "running" /\ cli_pc = "prompt" /\ pc = "idle"
    /\ IF ~Truthy(GetCurrentUser(sessions))
       THEN /\ call' = CliMessage("handle_index_repo", "invalid_choice")
            /\ cli_pc' = "menu"
            /\ UNCHANGED <<github_manager, selected_file>>
       ELSE \E o \in GetGithubManagerInstance(github_manager, sessions, users,
                                              selected_file) :
            /\ github_manager' = o.manager
            /\ selected_file' = o.selected
            /\ IF o.error # "none"
               THEN /\ call' = CliMessage("handle_index_repo", o.error)
                    /\ cli_pc' = "menu"
               ELSE IF ~Truthy(o.manager.current_repo)
               THEN /\ call' = CliMessage("handle_index_repo", "no_repository")
                    /\ cli_pc' = "menu"
               ELSE /\ call' = [op |-> "handle_index_repo",
                                repo |-> o.manager.current_repo,
                                at |-> "collect", changed |-> FALSE]
                    /\ cli_pc' = "index"
    /\ result' = "returned"
    /\ UNCHANGED <<users, sessions, current_user, archives_root, archives,
                   chroma_file, clock, indexVars, pc, proc>>

\* handle_index_repo, lines 926-956: the contents are collected and stored.
IndexCollected ==
    /\ proc = "running" /\ cli_pc = "index"
    /\ \E docs \in CliDocumentMaps : HandleIndexRepo(call.repo, docs)
    /\ cli_pc' = "indexing"
    /\ UNCHANGED <<github_manager, proc>>

\* handle_index_repo has ended: whatever was raised in it was caught by its own
\* handlers (lines 958-961) and reported.
IndexReturns ==
    /\ proc = "running" /\ cli_pc = "indexing" /\ pc = "idle"
    /\ cli_pc' = "menu"
    /\ UNCHANGED <<authVars, indexVars, pc, call, result, github_manager, proc>>

\* Choice 0: sys.exit(0).
Exit ==
    /\ proc = "running" /\ cli_pc = "prompt"
    /\ proc' = "exited"
    /\ cli_pc' = "none"
    /\ UNCHANGED <<authVars, indexVars, pc, call, result, github_manager>>

\* The program is started again: the module builds a new AuthManager.
RunApplication ==
    /\ proc # "running"
    /\ Restart
    /\ proc' = "running"
    /\ github_manager' = NoManager
    /\ cli_pc' = "load_stats"

\* The module builds a new VectorDBManager: _load_stats reads the statistics
\* file, and takes a file that does not parse for an empty one.
LoadStats ==
    /\ proc = "running" /\ cli_pc = "load_stats"
    /\ repo_stats' = IF stats_file.parses THEN stats_file.data ELSE EmptyStats
    /\ cli_pc' = "startup"
    /\ UNCHANGED <<collection, stats_file, authVars, pc, call, result,
                   github_manager, proc>>

\* run_application, lines 1160-1173: a manager for the session found at start.
Startup ==
    /\ proc = "running" /\ cli_pc = "startup"
    /\ LET token == GetGithubToken(users, GetCurrentUser(sessions))
       IN  IF Truthy(GetCurrentUser(sessions)) /\ Truthy(token)
           THEN \E o \in GitHubManagerInit(token, selected_file) :
                    /\ github_manager' = IF o.raised THEN github_manager
                                         ELSE o.manager
                    /\ selected_file' = o.selected
           ELSE UNCHANGED <<github_manager, selected_file>>
    /\ cli_pc' = "menu"
    /\ UNCHANGED <<users, sessions, current_user, archives_root, archives,
                   chroma_file, clock, indexVars, pc, call, result, proc>>

InitIndex ==
    /\ collection = {}
    /\ repo_stats = EmptyStats
    /\ stats_file = StatsFile(EmptyStats)

InitAuth ==
    /\ users = [u \in {} |-> None]
    /\ sessions = {}
    /\ current_user = None
    /\ archives_root = FALSE
    /\ archives = {}
    /\ chroma_file = Absent
    /\ selected_file = Absent
    /\ clock = 0

InitCli ==
    /\ github_manager = NoManager
    /\ proc = "running"
    /\ cli_pc = "menu"

Init ==
    /\ InitIndex
    /\ InitAuth
    /\ InitCli
    /\ pc = "idle"
    /\ call = NoCall
    /\ result = "none"

\* The index and the account store share no state (the archival reads only
\* whether the backing file exists and what it holds), so each has its own
\* specification: SpecIndex runs the calls on the index, SpecAuth those on the
\* accounts. Each explores its whole state space over the input sets above.
NextIndex ==
    \/ UNCHANGED cliVars /\ \E r \in Repos, docs \in DocumentMaps :
                                HandleIndexRepo(r, docs)
    \/ UNCHANGED cliVars /\ StoreUpsert
    \/ UNCHANGED cliVars /\ StoreStats
    \/ UNCHANGED cliVars /\ StoreSave
    \/ UNCHANGED cliVars /\ \E r \in Repos : ClearRepository(r)
    \/ UNCHANGED cliVars /\ ClearStats

SpecIndex == Init /\ [][NextIndex]_vars

NextAuth ==
    \/ UNCHANGED cliVars /\ \E u \in Usernames, p \in Passwords : Register(u, p)
    \/ UNCHANGED cliVars /\ \E u \in Usernames, p \in Passwords : Login(u, p)
    \/ UNCHANGED cliVars /\ Logout
    \/ UNCHANGED cliVars /\ Restart
    \/ UNCHANGED cliVars /\ \E u \in Usernames, t \in Tokens :
                                SetGithubToken(u, t)
    \/ UNCHANGED cliVars /\ ArchiveOldData
    \/ UNCHANGED cliVars /\ SaveToken
    \/ UNCHANGED cliVars /\ \E v \in ChromaVersions : ChromaWrite(v)
    \/ UNCHANGED cliVars /\ \E v \in SelectedVersions : SaveSelectedRepo(v)
    \/ UNCHANGED cliVars /\ Tick

SpecAuth == Init /\ [][NextAuth]_vars

\* The command loop: the commands as run_application dispatches them, over the
\* inputs of the command loop.
NextCli ==
    \/ DisplayMainMenu
    \/ \E u \in CliUsernames, p \in {"pw1"} : HandleRegister(u, p)
    \/ \E u \in CliUsernames, p \in CliPasswords : HandleLogin(u, p)
    \/ LoginManager
    \/ HandleLogout
    \/ \E t \in Tokens : HandleSetGithubToken(t)
    \/ CliCallStep
    \/ SetTokenReturns
    \/ \E r \in CliRepos : HandleSelectRepo(r)
    \/ IndexCommand
    \/ IndexCollected
    \/ IndexReturns
    \/ Exit
    \/ RunApplication
    \/ LoadStats
    \/ Startup

SpecCli == Init /\ [][NextCli]_vars

\* The searches, over an index that the index command fills.
NextSearch ==
    \/ UNCHANGED cliVars /\ \E r \in Repos, docs \in SearchDocumentMaps :
                                HandleIndexRepo(r, docs)
    \/ UNCHANGED cliVars /\ StoreUpsert
    \/ UNCHANGED cliVars /\ StoreStats
    \/ UNCHANGED cliVars /\ StoreSave
    \/ \E q \in Queries, f \in RepoFilters : HandleSearch(q, f)
    \/ \E q \in Queries, f \in RepoFilters, l \in LimitStrings :
        HandleSemanticSearch(q, f, l)
    \/ SearchEmbed
    \/ SearchQuery

SpecSearch == Init /\ [][NextSearch]_vars

\* The traversal, over every repository and every outcome of its listings.
NextTraversal ==
    \E absent \in SUBSET OptionalFiles, fails \in [Dirs -> ListingOutcomes] :
        Traverse(absent, fails)

SpecTraversal == Init /\ [][NextTraversal]_vars

\* The index run: the loop of handle_index_repo and the store it feeds.
NextIndexRun ==
    \/ \E r \in CliRepos, contents \in ContentLists : IndexLoop(r, contents)
    \/ IndexStore
    \/ UNCHANGED cliVars /\ StoreUpsert
    \/ UNCHANGED cliVars /\ StoreStats
    \/ UNCHANGED cliVars /\ StoreSave

SpecIndexRun == Init /\ [][NextIndexRun]_vars

\* The start of a process over every statistics file, and a read after it.
NextLoadStats ==
    \/ \E file \in StatsFileContents : LoadStatsFile(file)
    \/ ReadLoadedStats

SpecLoadStats == Init /\ [][NextLoadStats]_vars

NextBranch ==
    \/ \E selected \in BOOLEAN, remote \in RemoteRepos,
          b \in BranchNames \cup {"gone"} :
            DeleteBranchCall(selected, remote, b)
    \/ \E selected \in BOOLEAN, remote \in RemoteRepos,
          typed \in Typed(BranchNames \cup {"gone", "0"}),
          details \in BOOLEAN, confirmed \in BOOLEAN :
            HandleDeleteBranch(selected, remote, typed, details, confirmed)

SpecBranch == Init /\ [][NextBranch]_vars

NextIssue ==
    \E issue \in RemoteIssues, number \in {"0", "7", "8"}, fetched \in BOOLEAN,
       state \in {"", "open", "closed", "done"}, title \in {""} \cup IssueTitles,
       lines \in BodyLines, answer \in {"", "n"} :
        HandleUpdateIssue(issue, number, fetched, state, title, lines, answer)

SpecIssue == Init /\ [][NextIssue]_vars

Next == NextIndex \/ NextAuth \/ NextCli \/ NextSearch \/ NextTraversal \/ NextIndexRun \/ NextLoadStats \/ NextBranch \/ NextIssue

Spec == Init /\ [][Next]_vars

\* ------------------------------------------------------------------ claims

\* The stored documents of a (repo, path) pair, and of a repository.
DocsOf(coll, r, p) == {d \in coll : d.repo = r /\ d.path = p}

DocsOfRepo(coll, r) == {d \in coll : d.repo = r}

\* The running call: the one a step starts, or the one it continues.
Running == IF pc = "idle" THEN call' ELSE call

\* The account store and its archives.

\* C1: rotating a registered user's token from a non-empty value to a different
\* non-empty value produces exactly one new archive directory, and that
\* directory holds a copy of the backing file when the file exists.
C1_RotationArchivesOnce ==
    [][(pc = "archive" /\ call.token # "") =>
        /\ Cardinality(archives' \ archives) = 1
        /\ chroma_file # Absent =>
               \A a \in archives' \ archives : a.chroma = chroma_file]_vars

\* C2: once set_github_token(u, t) has been invoked for a registered user u,
\* the stored token of u is t.
C2_TokenStored ==
    (pc = "idle" /\ call.op = "set_github_token"
        /\ call.username \in DOMAIN users)
    => GetGithubToken(users, call.username) = call.token

\* C3: a set_github_token whose archival step failed has still stored the new
\* token, and has not raised.
C3_ArchivalFailureDoesNotBlock ==
    (pc = "idle" /\ call.op = "set_github_token" /\ call.at = "archive")
    => /\ GetGithubToken(users, call.username) = call.token
       /\ result # "raised"

\* The sessions.

\* A step that is a call of `op` on the AuthManager: it leaves the summary or
\* the locals of that call. (A call that repeats the last one and changes
\* nothing is no step at all.)
CallStep(op) == pc = "idle" /\ call' # call /\ call'.op = op

\* C11: the session file holds zero or one username in every reachable state,
\* whatever sequence of register, login (successful or refused), logout and
\* set_github_token ran; a successful login that finds a session replaces it.
C11_AtMostOneSession ==
    /\ Cardinality(sessions) <= 1
    /\ (pc = "idle" /\ call.op = "login" /\ call.at = "session_replaced")
        => sessions = {call.username}

\* A login succeeded while the file held a session: the file holds the new one.
C11_Witness ==
    /\ pc = "idle"
    /\ call.op = "login"
    /\ call.at = "session_replaced"
    /\ sessions = {call.username}
    /\ Cardinality(DOMAIN users) = 2

\* C12: get_current_user answers the username of the latest successful login
\* that no logout followed, and None when there is none: a successful login
\* makes it the login's username, a logout makes it None, and no other step
\* changes it, neither a refused login, which leaves the session file as it
\* was, nor a restart of the process, which reads the file the last process
\* left.
C12_CurrentUserIsLastLogin ==
    [][/\ (CallStep("login") /\ call'.at # "refused")
            => GetCurrentUser(sessions') = call'.username
       /\ (CallStep("login") /\ call'.at = "refused")
            => sessions' = sessions
       /\ CallStep("logout") => GetCurrentUser(sessions') = None
       /\ CallStep("restart") => sessions' = sessions
       /\ ~(CallStep("login") \/ CallStep("logout"))
            => GetCurrentUser(sessions') = GetCurrentUser(sessions)]_vars

\* The process was restarted while a user was logged in: the new process has
\* no user in memory, and get_current_user still answers that user.
C12_Witness ==
    /\ pc = "idle"
    /\ call.op = "restart"
    /\ current_user = None
    /\ GetCurrentUser(sessions) \in Usernames

\* C13: set_github_token starts the archival exactly when the user exists, the
\* stored token is neither None nor empty, and the new token differs from it;
\* a call that sets a first token or the same token starts none, and no step
\* outside the archival makes an archive directory.
C13_ArchivalExactlyOnRotation ==
    [][/\ CallStep("set_github_token")
            => ((pc' = "archive")
                <=> /\ call'.username \in DOMAIN users
                    /\ users[call'.username].github_token \notin {None, ""}
                    /\ users[call'.username].github_token # call'.token)
       /\ pc # "archive"
            => (archives' = archives /\ archives_root' = archives_root)]_vars

\* A first token was stored, and the archive root was never made.
C13_Witness ==
    /\ pc = "idle"
    /\ call.op = "set_github_token"
    /\ call.at = "saved"
    /\ call.token # ""
    /\ GetGithubToken(users, call.username) = call.token
    /\ ~archives_root
    /\ archives = {}

C15_FailuresReturnToLoop == proc # "crashed"

\* A step of the command loop that runs the index command.
IndexCommandStep ==
    /\ cli_pc = "prompt"
    /\ cli_pc' \in {"menu", "index"}
    /\ call'.op = "handle_index_repo"

\* No repository is selected: the cached manager has no current_repo, or there
\* is no manager and no state file to load one from.
NoRepositorySelected ==
    IF github_manager.built
    THEN github_manager.current_repo = None
    ELSE selected_file = Absent

\* C18: an index command issued when no user is logged in, when the user has
\* no stored token, or when no repository is selected is rejected with a
\* message, and leaves the vector store, the statistics, the session, the
\* accounts and the selected repository as they were.
C18_RejectedIndexChangesNothing ==
    [][(/\ IndexCommandStep
        /\ \/ GetCurrentUser(sessions) = None
           \/ GetGithubToken(users, GetCurrentUser(sessions)) \in {None, ""}
           \/ NoRepositorySelected)
       => /\ cli_pc' = "menu"
          /\ call'.at \in {"invalid_choice", "not_logged_in", "no_token",
                            "no_repository"}
          /\ UNCHANGED <<collection, repo_stats, stats_file, sessions, users,
                         current_user, selected_file>>
          /\ github_manager'.current_repo = github_manager.current_repo]_vars

\* A logged-in user with a token gave the index command with no repository
\* selected, and was told so.
C18_Witness ==
    /\ cli_pc = "menu"
    /\ call.op = "handle_index_repo"
    /\ call.at = "no_repository"
    /\ Truthy(GetGithubToken(users, GetCurrentUser(sessions)))

\* The searches.

\* The running or last call is a search command.
IsSearch == call.op \in {"handle_search", "handle_semantic_search"}

\* C16: a limit that is zero, negative or not an integer is rejected by the
\* search command: no query is sent to the collection for it. (An empty input
\* stands for the default.)
C16_InvalidLimitRejected ==
    (/\ call.op = "handle_semantic_search"
     /\ Len(call.limit_str) > 0
     /\ ~(IntParses(call.limit_str) /\ IntOf(call.limit_str) >= 1))
    => ~call.delegated

\* C17: a search with an empty query is rejected at once: the query is neither
\* embedded nor sent to the collection.
C17_EmptyQueryRejected ==
    (IsSearch /\ call.query = "")
    => /\ ~call.embedded
       /\ ~call.delegated

\* C19: a search with limit N returns at most N results, in the order of the
\* collection's answer, which is by non-decreasing distance: entry i of the
\* result is entry i of the answer, none is dropped and none is added.
C19_ResultsInStoreOrder ==
    (IsSearch /\ pc = "idle" /\ call.at = "returned")
    => /\ Len(call.results) <= call.n_results
       /\ Len(call.results) = Len(call.answer.ids)
       /\ \A i \in 1..Len(call.results) :
            /\ call.results[i].id = call.answer.ids[i]
            /\ call.results[i].repo = call.answer.metadatas[i].repo
            /\ call.results[i].path = call.answer.metadatas[i].path
            /\ call.results[i].content = call.answer.documents[i]
            /\ call.results[i].distance = call.answer.distances[i]
       /\ \A i, j \in 1..Len(call.results) :
            i <= j => call.results[i].distance <= call.results[j].distance

\* A search with limit 2 over three documents returned two results, the nearer
\* one first.
C19_Witness ==
    /\ IsSearch /\ pc = "idle" /\ call.at = "returned"
    /\ call.n_results = 2
    /\ Cardinality(Matching(collection, call.repo_name)) = 3
    /\ Len(call.results) = 2
    /\ call.results[1].distance < call.results[2].distance

\* The traversal.

\* The directory whose listing holds the entry `path`.
ParentOf(path) ==
    CHOOSE p \in Dirs : \E i \in 1..Len(RepoTree[p]) : RepoTree[p][i].path = path

\* A directory is walked when its listing answers and so does the listing of
\* every directory above it.
RECURSIVE Walked(_, _)
Walked(fails, path) ==
    /\ fails[path] = "ok"
    /\ path # "" => Walked(fails, ParentOf(path))

\* The entries that are not directories, of the directories that are walked.
AccessibleFiles(tree, fails) ==
    {e \in UNION {{tree[p][i] : i \in 1..Len(tree[p])} :
                    p \in {q \in Dirs : Walked(fails, q)}} : e.type # "dir"}

\* C20: when the listing of a directory below the root fails with the
\* provider's exception, _get_all_contents raises nothing and returns exactly
\* the file entries (the entries that are not directories), each once, of the
\* directories outside the failed subtrees: the siblings before and after a
\* failed directory are returned.
C20_InaccessibleSubtreeTolerated ==
    (/\ call.op = "_get_all_contents"
     /\ call.fails[""] = "ok"
     /\ \E p \in Dirs : call.fails[p] = "github"
     /\ \A p \in Dirs : call.fails[p] # "other")
    => /\ ~call.raised
       /\ {call.contents[i] : i \in 1..Len(call.contents)}
            = AccessibleFiles(TreeWithout(call.absent), call.fails)
       /\ \A i, j \in 1..Len(call.contents) :
            i # j => call.contents[i] # call.contents[j]

\* The listing of the first directory failed: the file before it and the file
\* after it are returned, its own file is not.
C20_Witness ==
    /\ call.op = "_get_all_contents"
    /\ call.fails = [p \in Dirs |-> IF p = "d" THEN "github" ELSE "ok"]
    /\ call.absent = {}
    /\ ~call.raised
    /\ \E i, j \in 1..Len(call.contents) :
        /\ i < j
        /\ call.contents[i].path = "a"
        /\ call.contents[j].path = "m"
    /\ \A i \in 1..Len(call.contents) : call.contents[i].path # "d/x"

\* The index.

\* C4: any two distinct (repo, path) pairs get distinct identifiers: no entry
\* of a batch about to be upserted has the identifier of a stored document, or
\* of another entry, of a different pair.
C4_DocIdInjective ==
    pc = "upsert" =>
        \A e \in call.batch : \A d \in collection \cup call.batch :
            <<d.repo, d.path>> # <<e.repo, e.path>> => d.id # e.id

\* C5: the store holds at most one document per (repo, path); an upsert of a
\* batch with that pair leaves exactly the batch's content for it, and no other
\* step gives the pair a document or another content.
C5_OverwriteNotDuplicate ==
    [][\A r \in Repos, p \in Paths :
        /\ Cardinality(DocsOf(collection', r, p)) <= 1
        /\ IF pc = "upsert" /\ pc' = "stats" /\ call.repo = r
              /\ p \in DOMAIN call.documents
           THEN {d.content : d \in DocsOf(collection', r, p)}
                    = {call.documents[p]}
           ELSE DocsOf(collection', r, p) \subseteq DocsOf(collection, r, p)]_vars

\* A path was indexed again with another content: one document, the new content.
C5_Witness ==
    /\ pc = "stats"
    /\ call.changed
    /\ \E p \in DOMAIN call.documents :
        /\ Cardinality(DocsOf(collection, call.repo, p)) = 1
        /\ \A d \in DocsOf(collection, call.repo, p) :
               d.content = call.documents[p]

\* The sum of the encoded lengths of the contents of a mapping.
RECURSIVE TotalBytes(_, _)
TotalBytes(documents, ps) ==
    IF ps = {} THEN 0
    ELSE LET p == CHOOSE x \in ps : TRUE
         IN  EncodedLen(documents[p]) + TotalBytes(documents, ps \ {p})

\* C6: when store_repository(R, docs) returns, the entry of R is the number of
\* documents of docs and the sum of their encoded lengths, whatever it was.
C6_StatsReplaced ==
    [][(pc = "save" /\ pc' = "idle" /\ result' = "returned") =>
        /\ call.repo \in DOMAIN repo_stats'
        /\ repo_stats'[call.repo] =
               [indexed_files |-> Cardinality(DOMAIN call.documents),
                size_bytes |-> TotalBytes(call.documents, DOMAIN call.documents)]]_vars

\* A run of one file has returned for a repository that holds two documents of
\* an earlier run: the entry counts one file.
C6_Witness ==
    /\ pc = "idle"
    /\ result = "returned"
    /\ call.op = "store_repository"
    /\ call.repo \in DOMAIN repo_stats
    /\ repo_stats[call.repo].indexed_files = 1
    /\ repo_stats[call.repo].size_bytes = 2
    /\ Cardinality(DocsOfRepo(collection, call.repo)) = 2

\* C7: after every completed index or clear operation, indexed_files of every
\* repository is the number of its stored documents, and a repository without
\* an entry has no documents.
C7_StatsAgreeWithDocuments ==
    (pc = "idle" /\ result = "returned") =>
        \A r \in Repos :
            IF r \in DOMAIN repo_stats
            THEN repo_stats[r].indexed_files
                     = Cardinality(DocsOfRepo(collection, r))
            ELSE DocsOfRepo(collection, r) = {}

\* C8: clear_repository(R) touches no document and no entry of another
\* repository, and when it returns R has no entry, no document, and no share in
\* the totals of get_repository_stats.
C8_ClearRemovesRepository ==
    [][(Running.op = "clear_repository") =>
        LET R == Running.repo
            own(stats, field) ==
                IF R \in DOMAIN stats THEN stats[R][field] ELSE 0
            before == GetRepositoryStats(repo_stats)
            after == GetRepositoryStats(repo_stats')
        IN  /\ \A r \in Repos \ {R} :
                /\ DocsOfRepo(collection', r) = DocsOfRepo(collection, r)
                /\ (r \in DOMAIN repo_stats') = (r \in DOMAIN repo_stats)
                /\ r \in DOMAIN repo_stats => repo_stats'[r] = repo_stats[r]
            /\ (pc' = "idle" /\ result' = "returned") =>
                /\ R \notin DOMAIN after.repos
                /\ DocsOfRepo(collection', R) = {}
                /\ after.total_repos
                       = before.total_repos - (IF R \in DOMAIN repo_stats THEN 1 ELSE 0)
                /\ after.total_files
                       = before.total_files - own(repo_stats, "indexed_files")
                /\ after.total_size_bytes
                       = before.total_size_bytes - own(repo_stats, "size_bytes")]_vars

\* A clear that removed documents has returned, and the other repository keeps
\* its documents and its entry.
C8_Witness ==
    /\ pc = "idle"
    /\ result = "returned"
    /\ call.op = "clear_repository"
    /\ call.changed
    /\ call.repo \notin DOMAIN repo_stats
    /\ \E r \in Repos \ {call.repo} :
        /\ r \in DOMAIN repo_stats
        /\ DocsOfRepo(collection, r) # {}

\* C9: within store_repository the statistics, in memory and on disk, change
\* only once the upsert of the same call has completed; a call that ends in a
\* failed embedding or a failed upsert has changed neither.
C9_StatsAfterUpsert ==
    [][(Running.op = "store_repository"
            /\ (repo_stats' # repo_stats \/ stats_file' # stats_file))
        => (pc # "idle" /\ call.upserted)]_vars

\* A store_repository call raised at the upsert for a repository that has an
\* entry of an earlier run.
C9_Witness ==
    /\ pc = "idle"
    /\ result = "raised"
    /\ call.op = "store_repository"
    /\ call.at = "upsert"
    /\ call.repo \in DOMAIN repo_stats
    /\ stats_file = StatsFile(repo_stats)

\* C10: the index command with an empty document mapping raises nothing and
\* changes neither the stored documents nor the statistics.
C10_EmptyMappingNoOp ==
    [][(\/ Running.at = "no_documents"
        \/ /\ Running.op = "store_repository"
           /\ Running.at = "running"
           /\ Running.documents = << >>)
        => /\ result' # "raised"
           /\ collection' = collection
           /\ repo_stats' = repo_stats
           /\ stats_file' = stats_file]_vars

\* The index command ended on an empty mapping for a repository that has
\* documents and an entry.
C10_Witness ==
    /\ pc = "idle"
    /\ result = "returned"
    /\ call.op = "handle_index_repo"
    /\ call.at = "no_documents"
    /\ call.repo \in DOMAIN repo_stats
    /\ repo_stats[call.repo].indexed_files > 0
    /\ DocsOfRepo(collection, call.repo) # {}

\* The index run.

\* The entries of a listing that the loop can index: files under the limit of
\* the loop whose content is read.
IndexedEntries(contents) ==
    {contents[i] : i \in {j \in 1..Len(contents) :
        /\ contents[j].type = "file"
        /\ contents[j].size < IndexSizeLimit
        /\ contents[j].reads}}

\* C21: an entry that cannot be read, or that is not eligible, is skipped, and
\* every other eligible entry is indexed: the mapping the loop leaves, which is
\* the one handed to store_repository, holds exactly the eligible entries whose
\* content was read, each under its path with its content.
C21_SkippedFilesDoNotStopRun ==
    [][(pc = "collected") =>
        /\ DOMAIN call.documents = {e.path : e \in IndexedEntries(call.contents)}
        /\ \A e \in IndexedEntries(call.contents) :
               call.documents[e.path] = e.content
        /\ (pc' = "upsert") => call'.documents = call.documents
        /\ (IndexedEntries(call.contents) # {})
               => call'.op = "store_repository"]_vars

\* The first entry could not be read and the second was indexed.
C21_Witness ==
    /\ pc = "collected"
    /\ Len(call.contents) = 2
    /\ Eligible(call.contents[1]) /\ ~call.contents[1].reads
    /\ Eligible(call.contents[2]) /\ call.contents[2].reads
    /\ DOMAIN call.documents = {call.contents[2].path}

\* C22: an entry is indexed only if it is a file and its size is under the
\* configured maximum, max_file_size.
C22_OnlyFilesUnderConfiguredMax ==
    (pc = "collected") =>
        \A i \in 1..Len(call.contents) :
            call.contents[i].path \in DOMAIN call.documents
            => /\ call.contents[i].type = "file"
               /\ call.contents[i].size < MaxFileSize

\* The statistics at startup.

\* The file is absent or malformed: it cannot be parsed, or it parses to
\* something that is not an object of statistics entries.
Malformed(file) ==
    \/ file.kind # "json"
    \/ file.value.kind # "object"
    \/ \E r \in DOMAIN file.value.entries : file.value.entries[r].kind # "entry"

\* C23: over an absent or malformed statistics file the loaded mapping is the
\* empty mapping, the load does not fail the startup, and a later read of the
\* statistics does not raise.
C23_MalformedStatsLoadEmpty ==
    (call.op = "_load_stats" /\ Malformed(call.file))
    => /\ ~call.raised
       /\ call.value = EmptyObject
       /\ call.at # "read_raised"

\* ---------------------------------------------------------------------
\* The accounts.

\* C24: usernames are unique and accounts are never deleted: a register
\* of a registered username returns False (the call ends at "exists")
\* and leaves that account's password hash and token as they were, and
\* no step of register, login, logout or set_github_token removes an
\* account from the users mapping.
C24_AccountsUniqueAndKept ==
    [][/\ DOMAIN users \subseteq DOMAIN users'
       /\ (CallStep("register") /\ call'.username \in DOMAIN users)
            => /\ call'.at = "exists"
               /\ users'[call'.username] = users[call'.username]]_vars

\* A register of a registered username was refused while that account
\* holds a token.
C24_Witness ==
    /\ pc = "idle"
    /\ call.op = "register"
    /\ call.at = "exists"
    /\ call.username \in DOMAIN users
    /\ users[call.username].github_token # None

\* C26: login returns True exactly when the username is registered and
\* the password hashes to the stored hash; a successful register stores
\* the hash of its password, no step changes a stored hash, and distinct
\* passwords have distinct hashes, so the password that logs in is the
\* one of the first successful register.
C26_LoginIffRegisteredPassword ==
    [][/\ \A u \in DOMAIN users :
              u \in DOMAIN users'
                  => users'[u].password_hash = users[u].password_hash
       /\ \A p1 \in Passwords, p2 \in Passwords :
              HashPassword(p1) = HashPassword(p2) => p1 = p2
       /\ (CallStep("register") /\ call'.at = "registered")
            => /\ call'.username \notin DOMAIN users
               /\ users'[call'.username].password_hash
                      = HashPassword(call'.password)
       /\ CallStep("login")
            => ((call'.at # "refused")
                   <=> /\ call'.username \in DOMAIN users
                       /\ users[call'.username].password_hash
                              = HashPassword(call'.password))]_vars

\* A login of a registered user with another password was refused.
C26_Witness ==
    /\ pc = "idle"
    /\ call.op = "login"
    /\ call.at = "refused"
    /\ call.username \in DOMAIN users
    /\ users[call.username].password_hash # HashPassword(call.password)

\* ---------------------------------------------------------------------
\* The index and the other repositories.

\* C25: store_repository(R, docs) leaves the documents of every other
\* repository as they were: no step of the call changes the set of stored
\* documents of a repository other than R, nor their contents.
C25_StoreLeavesOtherRepositories ==
    [][(Running.op = "store_repository")
          => \A r \in Repos \ {Running.repo} :
                 DocsOfRepo(collection', r) = DocsOfRepo(collection, r)]_vars

\* C29: after every store_repository or clear_repository call that has
\* returned, the statistics in memory are what the statistics file holds, so
\* that loading the file gives them back.
C29_StatsFileIsStats ==
    (/\ pc = "idle"
     /\ result = "returned"
     /\ call.op \in {"store_repository", "clear_repository"})
        => /\ stats_file = StatsFile(repo_stats)
           /\ repo_stats = IF stats_file.parses THEN stats_file.data
                           ELSE EmptyStats

\* ---------------------------------------------------------------------
\* The cached GitHub client.

\* The command loop stands between two commands.
BetweenCommands == proc = "running" /\ cli_pc \in {"menu", "prompt"}

\* C27: between two commands of the loop the cached client is None whenever
\* no session is active, and a cached client was constructed from the
\* stored token of the user the session names.
C27_ClientBelongsToSessionUser ==
    BetweenCommands =>
        /\ (sessions = {} => ~github_manager.built)
        /\ github_manager.built =>
              /\ GetCurrentUser(sessions) \in DOMAIN users
              /\ github_manager.token
                    = GetGithubToken(users, GetCurrentUser(sessions))

\* ---------------------------------------------------------------------
\* The branches.

IsDeleteBranch == call.op \in {"delete_branch", "handle_delete_branch"}

\* C30: the default branch is never deleted: after delete_branch and after
\* the Delete Branch command the default branch is still a branch; a
\* delete_branch with the default branch's name raises without a delete call
\* to the provider, and the command given that name makes no delete call and,
\* once it has the repository's details, refuses.
C30_DefaultBranchKept ==
    IsDeleteBranch =>
        /\ call.before.default_branch \in call.after
        /\ (call.branch_name = call.before.default_branch)
              => /\ call.provider_deletes = 0
                 /\ call.after = call.before.branches
                 /\ call.op = "delete_branch" => result = "raised"
                 /\ (call.op = "delete_branch" /\ call.selected)
                        => call.at = "default_branch"
                 /\ (call.op = "handle_delete_branch" /\ call.details)
                        => call.at = "refused"

\* delete_branch was called with the default branch's name on a selected
\* repository that has other branches.
C30_Witness ==
    /\ call.op = "delete_branch"
    /\ call.selected
    /\ call.branch_name = call.before.default_branch
    /\ call.before.branches # {call.before.default_branch}
    /\ result = "raised"

\* ---------------------------------------------------------------------
\* The issues.

\* C28: when the Update Issue command has reported the issue as updated, the
\* remote issue carries every confirmed update: it is the issue found with
\* the state, title and body entered, changed through the provider.
C28_ReportedUpdateApplied ==
    (call.op = "handle_update_issue" /\ call.at = "updated")
        => /\ call.after = Edited(call.before, call.updates)
           /\ call.provider_edits > 0
====
